---- MODULE Spec2Model ----
(***************************************************************************)
(* The reporting script src/main.py: it opens data.sqlite, runs two        *)
(* metadata queries and ten SELECT statements in sequence, and closes the  *)
(* connection.  The database file is the program's input; the tables it    *)
(* holds are modelled as sequences of rows (rowid order), SQL TEXT that is *)
(* ordered or cast is a sequence of character codes, and every SELECT is   *)
(* an operator built from the relational operations of its text.           *)
(***************************************************************************)
EXTENDS Integers, Sequences, FiniteSets, TLC

(***************************************************************************)
(* SQL values.                                                             *)
(***************************************************************************)
\* NULL in an integer column, in a text column held as character codes, and
\* in a text column that is only projected (held as a string).
NullInt == -1
NullChars == <<NullInt>>
NullText == "<NULL>"

IsNull(v) == v = NullInt

\* a = b of SQL: never true when either side is NULL.
SqlEq(a, b) == a # NullInt /\ b # NullInt /\ a = b

Min2(a, b) == IF a <= b THEN a ELSE b

\* Sequences of character codes under the BINARY collation: bytewise, a
\* proper prefix sorts first.
CharsLess(s, t) ==
    \E i \in 1..(Min2(Len(s), Len(t)) + 1) :
        /\ \A j \in 1..(i - 1) : s[j] = t[j]
        /\ \/ (i = Len(s) + 1 /\ i <= Len(t))
           \/ (i <= Len(s) /\ i <= Len(t) /\ s[i] < t[i])

IsDigit(c) == c \in 48..57

\* Number of leading characters of t, from position i on, that are digits.
RECURSIVE DigitRun(_, _)
DigitRun(t, i) ==
    IF i <= Len(t) /\ IsDigit(t[i]) THEN 1 + DigitRun(t, i + 1) ELSE 0

\* Value of the digits t[i .. i+n-1].
RECURSIVE DigitsValue(_, _, _)
DigitsValue(t, i, n) ==
    IF n = 0 THEN 0
    ELSE 10 * DigitsValue(t, i, n - 1) + (t[i + n - 1] - 48)

\* CAST(t AS REAL): the longest numeric prefix of the text (digits, then an
\* optional '.' and digits), 0.0 when there is none.  The result is held in
\* hundredths, which is exact for texts with at most two fraction digits.
CastReal(t) ==
    LET n == DigitRun(t, 1)
        hasFrac == n + 1 <= Len(t) /\ t[n + 1] = 46
        m == IF hasFrac THEN DigitRun(t, n + 2) ELSE 0
        f1 == IF m >= 1 THEN t[n + 2] - 48 ELSE 0
        f2 == IF m >= 2 THEN t[n + 3] - 48 ELSE 0
    IN  100 * DigitsValue(t, 1, n) + 10 * f1 + f2

(***************************************************************************)
(* Relational operations, as the engine evaluates them: nested loops in    *)
(* the order of the FROM clause, a stable sorter for ORDER BY and GROUP BY.*)
(* A joined row is a record with one field per table alias.  Rows that a   *)
(* statement does not order come out in the order of these loops.          *)
(***************************************************************************)
RECURSIVE Flatten(_)
Flatten(ss) == IF ss = <<>> THEN <<>> ELSE Head(ss) \o Flatten(Tail(ss))

\* FROM T a: the rows of T in rowid order, under the alias a.
From(T, a) == [i \in 1..Len(T) |-> [x \in {a} |-> T[i]]]

\* The joined row r extended by row t under the alias b.
With(r, b, t) == [x \in DOMAIN r \cup {b} |-> IF x = b THEN t ELSE r[x]]

\* J JOIN T b ON a.f = b.g: J is the outer loop, T the inner one.
Join(J, a, f, T, b, g) ==
    Flatten([i \in 1..Len(J) |->
        LET m == SelectSeq(T, LAMBDA t : SqlEq(J[i][a][f], t[g]))
        IN  [j \in 1..Len(m) |-> With(J[i], b, m[j])]])

\* J LEFT JOIN T b ON a.f = b.g: an outer row without a match is kept once,
\* with the columns of b NULL.
LeftJoin(J, a, f, T, b, g, nullRow) ==
    Flatten([i \in 1..Len(J) |->
        LET m == SelectSeq(T, LAMBDA t : SqlEq(J[i][a][f], t[g]))
        IN  IF m = <<>> THEN <<With(J[i], b, nullRow)>>
            ELSE [j \in 1..Len(m) |-> With(J[i], b, m[j])]])

\* Sort keys: one component per ORDER BY term.  An integer is its own
\* component; a text is its characters behind a tag that puts NULL first.
IntKey(n) == <<n>>
TextKey(t) == IF t = NullChars THEN <<0>> ELSE <<1>> \o t

KeyLess(k1, k2) ==
    \E n \in 1..Len(k1) :
        /\ \A m \in 1..(n - 1) : k1[m] = k2[m]
        /\ CharsLess(k1[n], k2[n])

\* ORDER BY ... ASC and ... DESC with the sorter's stable merge: key[i] is
\* the key of s[i], and rows of equal key keep the order they came in.
SortAsc(s, key) ==
    LET n == Len(s)
        rank(i) == 1 + Cardinality({j \in 1..n :
                        \/ KeyLess(key[j], key[i])
                        \/ (~KeyLess(key[i], key[j]) /\ j < i)})
    IN  [r \in 1..n |-> s[CHOOSE i \in 1..n : rank(i) = r]]

SortDesc(s, key) ==
    LET n == Len(s)
        rank(i) == 1 + Cardinality({j \in 1..n :
                        \/ KeyLess(key[i], key[j])
                        \/ (~KeyLess(key[j], key[i]) /\ j < i)})
    IN  [r \in 1..n |-> s[CHOOSE i \in 1..n : rank(i) = r]]

\* SELECT DISTINCT: the first occurrence of each row.
Distinct(s) ==
    LET keep == {i \in 1..Len(s) : \A j \in 1..(i - 1) : s[j] # s[i]}
        nth(r) == CHOOSE i \in keep : Cardinality({j \in keep : j < i}) = r - 1
    IN  [r \in 1..Cardinality(keep) |-> s[nth(r)]]

RECURSIVE SumSeq(_)
SumSeq(s) == IF s = <<>> THEN 0 ELSE Head(s) + SumSeq(Tail(s))

Range(s) == {s[i] : i \in 1..Len(s)}

\* The non-NULL values of column a.f over the joined rows.
Column(rows, a, f) ==
    SelectSeq([i \in 1..Len(rows) |-> rows[i][a][f]], LAMBDA v : ~IsNull(v))

\* COUNT(a.f), SUM(a.f) and COUNT(DISTINCT a.f) over the rows of a group.
Count(rows, a, f) == Len(Column(rows, a, f))
Sum(rows, a, f) == SumSeq(Column(rows, a, f))
CountDistinct(rows, a, f) == Cardinality(Range(Column(rows, a, f)))

\* LIMIT n.
Limit(s, n) == SubSeq(s, 1, Min2(n, Len(s)))

(***************************************************************************)
(* The ten SELECT statements.  d is the database: one sequence of rows per *)
(* table.                                                                  *)
(***************************************************************************)
NullEmployee ==
    [employeeNumber |-> NullInt, firstName |-> NullChars,
     lastName |-> NullChars, officeCode |-> NullInt]
NullOffice ==
    [officeCode |-> NullInt, city |-> NullChars, state |-> NullText,
     country |-> NullText]
NullOrder == [orderNumber |-> NullInt, customerNumber |-> NullInt]

\* The literal 'Boston'.
Boston == <<66, 111, 115, 116, 111, 110>>

\* STEP 1: employees e JOIN offices o ... WHERE o.city = 'Boston'.
Step1(d) ==
    LET j == Join(From(d.employees, "e"), "e", "officeCode",
                  d.offices, "o", "officeCode")
        w == SelectSeq(j, LAMBDA r : r.o.city = Boston)
    IN  [i \in 1..Len(w) |->
            [firstName |-> w[i].e.firstName, lastName |-> w[i].e.lastName]]

\* Step 2 with JOIN in place of LEFT JOIN.
Step2InnerJoin(d) ==
    LET j == Join(From(d.offices, "o"), "o", "officeCode",
                  d.employees, "e", "officeCode")
        w == SelectSeq(j, LAMBDA r : IsNull(r.e.employeeNumber))
    IN  [i \in 1..Len(w) |->
            [officeCode |-> w[i].o.officeCode, city |-> w[i].o.city,
             state |-> w[i].o.state, country |-> w[i].o.country]]

\* STEP 2: offices o LEFT JOIN employees e ...
\* WHERE e.employeeNumber IS NULL.
Step2(d) ==
    LET j == LeftJoin(From(d.offices, "o"), "o", "officeCode",
                      d.employees, "e", "officeCode", NullEmployee)
        w == SelectSeq(j, LAMBDA r : IsNull(r.e.employeeNumber))
    IN  [i \in 1..Len(w) |->
            [officeCode |-> w[i].o.officeCode, city |-> w[i].o.city,
             state |-> w[i].o.state, country |-> w[i].o.country]]

\* STEP 3: employees e LEFT JOIN offices o ...
\* ORDER BY e.firstName, e.lastName.
Step3(d) ==
    LET j == LeftJoin(From(d.employees, "e"), "e", "officeCode",
                      d.offices, "o", "officeCode", NullOffice)
        s == SortAsc(j, [i \in 1..Len(j) |->
                 <<TextKey(j[i].e.firstName), TextKey(j[i].e.lastName)>>])
    IN  [i \in 1..Len(s) |->
            [firstName |-> s[i].e.firstName, lastName |-> s[i].e.lastName,
             city |-> s[i].o.city, state |-> s[i].o.state]]

\* STEP 4: customers c LEFT JOIN orders o ... WHERE o.orderNumber IS NULL
\* ORDER BY c.contactLastName.
Step4(d) ==
    LET j == LeftJoin(From(d.customers, "c"), "c", "customerNumber",
                      d.orders, "o", "customerNumber", NullOrder)
        w == SelectSeq(j, LAMBDA r : IsNull(r.o.orderNumber))
        s == SortAsc(w, [i \in 1..Len(w) |->
                 <<TextKey(w[i].c.contactLastName)>>])
    IN  [i \in 1..Len(s) |->
            [contactFirstName |-> s[i].c.contactFirstName,
             contactLastName |-> s[i].c.contactLastName,
             phone |-> s[i].c.phone,
             salesRepEmployeeNumber |-> s[i].c.salesRepEmployeeNumber]]

\* The access path of step 5's join, which the ORDER BY leaves visible
\* among rows of equal amount.  It follows from the indexes the database
\* file holds (d.indexes):
\*   "none"         customers is scanned, payments is searched through an
\*                  automatic covering index on (customerNumber,
\*                  paymentDate, amount): a customer's payments come in
\*                  the order of paymentDate, amount, rowid;
\*   "payments_fk"  customers is scanned, payments is searched through its
\*                  index on customerNumber: a customer's payments come in
\*                  rowid order;
\*   "customers_pk" payments is scanned, customers is searched through its
\*                  key.
\* Step 5 is the one statement whose order among equal rows is examined;
\* the joins of the other steps are taken in the order they are written.
Step5Join(d) ==
    LET byDate == SortAsc(d.payments, [i \in 1..Len(d.payments) |->
                      <<TextKey(d.payments[i].paymentDate),
                        TextKey(d.payments[i].amount)>>])
    IN  CASE d.indexes = "none" ->
                Join(From(d.customers, "c"), "c", "customerNumber",
                     byDate, "p", "customerNumber")
          [] d.indexes = "payments_fk" ->
                Join(From(d.customers, "c"), "c", "customerNumber",
                     d.payments, "p", "customerNumber")
          [] d.indexes = "customers_pk" ->
                Join(From(d.payments, "p"), "p", "customerNumber",
                     d.customers, "c", "customerNumber")

\* ORDER BY p.amount, without the cast: the amounts compared as text.
AmountKeyText(amount) == <<TextKey(amount)>>

\* The sort key of ORDER BY CAST(p.amount AS REAL).
AmountKey(amount) == <<IntKey(CastReal(amount))>>

\* STEP 5: customers c INNER JOIN payments p ...
\* ORDER BY CAST(p.amount AS REAL) DESC.
Step5(d) ==
    LET j == Step5Join(d)
        s == SortDesc(j, [i \in 1..Len(j) |-> AmountKey(j[i].p.amount)])
    IN  [i \in 1..Len(s) |->
            [contactFirstName |-> s[i].c.contactFirstName,
             contactLastName |-> s[i].c.contactLastName,
             amount |-> s[i].p.amount, paymentDate |-> s[i].p.paymentDate]]

\* HAVING AVG(x) >= bound.
AvgAtLeast(vals, bound) ==
    Len(vals) > 0 /\ SumSeq(vals) >= bound * Len(vals)

\* HAVING AVG(x) > bound over the non-NULL values of a group: AVG is their
\* sum over their number (NULL, and the test fails, when there is none);
\* sum / n > bound is decided as sum > bound * n.
AvgGreater(vals, bound) ==
    Len(vals) > 0 /\ SumSeq(vals) > bound * Len(vals)

CreditLimitBound == 90000
TopEmployees == 4

\* STEP 6: employees e JOIN customers c ...
\* GROUP BY e.employeeNumber, e.firstName, e.lastName
\* HAVING AVG(c.creditLimit) > 90000 ORDER BY num_customers DESC LIMIT 4.
Step6(d) ==
    LET j == Join(From(d.employees, "e"), "e", "employeeNumber",
                  d.customers, "c", "salesRepEmployeeNumber")
        key(r) == [employeeNumber |-> r.e.employeeNumber,
                   firstName |-> r.e.firstName, lastName |-> r.e.lastName]
        ks == Distinct([i \in 1..Len(j) |-> key(j[i])])
        keys == SortAsc(ks, [i \in 1..Len(ks) |->
                    <<IntKey(ks[i].employeeNumber), TextKey(ks[i].firstName),
                      TextKey(ks[i].lastName)>>])
        group(k) == SelectSeq(j, LAMBDA r : key(r) = k)
        h == SelectSeq(keys, LAMBDA k :
                 AvgGreater(Column(group(k), "c", "creditLimit"),
                            CreditLimitBound))
        res == [i \in 1..Len(h) |->
                   [employeeNumber |-> h[i].employeeNumber,
                    firstName |-> h[i].firstName, lastName |-> h[i].lastName,
                    num_customers |-> Count(group(h[i]), "c", "customerNumber")]]
        s == SortDesc(res, [i \in 1..Len(res) |->
                 <<IntKey(res[i].num_customers)>>])
    IN  Limit(s, TopEmployees)

\* STEP 7: products p JOIN orderdetails o ... GROUP BY p.productName
\* ORDER BY totalunits DESC.
Step7(d) ==
    LET j == Join(From(d.products, "p"), "p", "productCode",
                  d.orderdetails, "o", "productCode")
        key(r) == [productName |-> r.p.productName]
        ks == Distinct([i \in 1..Len(j) |-> key(j[i])])
        keys == SortAsc(ks, [i \in 1..Len(ks) |->
                    <<TextKey(ks[i].productName)>>])
        group(k) == SelectSeq(j, LAMBDA r : key(r) = k)
        res == [i \in 1..Len(keys) |->
                   [productName |-> keys[i].productName,
                    numorders |-> Count(group(keys[i]), "o", "productCode"),
                    totalunits |-> Sum(group(keys[i]), "o", "quantityOrdered")]]
    IN  SortDesc(res, [i \in 1..Len(res) |-> <<IntKey(res[i].totalunits)>>])

\* STEP 8: products p JOIN orderdetails od ... JOIN orders o ...
\* GROUP BY p.productName, p.productCode ORDER BY numpurchasers DESC.
Step8(d) ==
    LET j1 == Join(From(d.products, "p"), "p", "productCode",
                   d.orderdetails, "od", "productCode")
        j == Join(j1, "od", "orderNumber", d.orders, "o", "orderNumber")
        key(r) == [productName |-> r.p.productName,
                   productCode |-> r.p.productCode]
        ks == Distinct([i \in 1..Len(j) |-> key(j[i])])
        keys == SortAsc(ks, [i \in 1..Len(ks) |->
                    <<TextKey(ks[i].productName), IntKey(ks[i].productCode)>>])
        group(k) == SelectSeq(j, LAMBDA r : key(r) = k)
        res == [i \in 1..Len(keys) |->
                   [productName |-> keys[i].productName,
                    productCode |-> keys[i].productCode,
                    numpurchasers |->
                        CountDistinct(group(keys[i]), "o", "customerNumber")]]
    IN  SortDesc(res, [i \in 1..Len(res) |-> <<IntKey(res[i].numpurchasers)>>])

\* STEP 9: offices o JOIN employees e ... JOIN customers c ...
\* GROUP BY o.officeCode, o.city.
Step9(d) ==
    LET j1 == Join(From(d.offices, "o"), "o", "officeCode",
                   d.employees, "e", "officeCode")
        j == Join(j1, "e", "employeeNumber",
                  d.customers, "c", "salesRepEmployeeNumber")
        key(r) == [officeCode |-> r.o.officeCode, city |-> r.o.city]
        ks == Distinct([i \in 1..Len(j) |-> key(j[i])])
        keys == SortAsc(ks, [i \in 1..Len(ks) |->
                    <<IntKey(ks[i].officeCode), TextKey(ks[i].city)>>])
        group(k) == SelectSeq(j, LAMBDA r : key(r) = k)
    IN  [i \in 1..Len(keys) |->
            [officeCode |-> keys[i].officeCode, city |-> keys[i].city,
             n_customers |-> Count(group(keys[i]), "c", "customerNumber")]]

LowDemandBound == 20

\* HAVING COUNT(DISTINCT o.customerNumber) <= 20.
LowDemandHavingAtMost(rows) ==
    CountDistinct(rows, "o", "customerNumber") <= LowDemandBound

\* HAVING COUNT(DISTINCT o.customerNumber) < 20, over the rows of a group.
LowDemandHaving(rows) ==
    CountDistinct(rows, "o", "customerNumber") < LowDemandBound

\* WITH low_demand_products AS (SELECT od.productCode FROM orderdetails od
\* JOIN orders o ... GROUP BY od.productCode HAVING ...).
LowDemandProducts(d) ==
    LET j == Join(From(d.orderdetails, "od"), "od", "orderNumber",
                  d.orders, "o", "orderNumber")
        ks == Distinct([i \in 1..Len(j) |-> j[i].od.productCode])
        keys == SortAsc(ks, [i \in 1..Len(ks) |-> <<IntKey(ks[i])>>])
    IN  SelectSeq(keys, LAMBDA k :
            LowDemandHaving(SelectSeq(j, LAMBDA r : r.od.productCode = k)))

\* SELECT without DISTINCT.
Step10All(rows) == rows

\* The SELECT DISTINCT of step 10 over its joined and filtered rows.
Step10Distinct(rows) == Distinct(rows)

\* STEP 10: employees e JOIN offices of ... JOIN customers c ... JOIN
\* orders o ... JOIN orderdetails od ... WHERE od.productCode IN
\* (SELECT productCode FROM low_demand_products), SELECT DISTINCT ...
\* ORDER BY e.lastName, e.firstName.
Step10(d) ==
    LET low == Range(LowDemandProducts(d))
        j1 == Join(From(d.employees, "e"), "e", "officeCode",
                   d.offices, "of", "officeCode")
        j2 == Join(j1, "e", "employeeNumber",
                   d.customers, "c", "salesRepEmployeeNumber")
        j3 == Join(j2, "c", "customerNumber", d.orders, "o", "customerNumber")
        j4 == Join(j3, "o", "orderNumber", d.orderdetails, "od", "orderNumber")
        w == SelectSeq(j4, LAMBDA r :
                 ~IsNull(r.od.productCode) /\ r.od.productCode \in low)
        sel == [i \in 1..Len(w) |->
                   [employeeNumber |-> w[i].e.employeeNumber,
                    firstName |-> w[i].e.firstName,
                    lastName |-> w[i].e.lastName,
                    city |-> w[i].of.city, officeCode |-> w[i].of.officeCode]]
        dis == Step10Distinct(sel)
    IN  SortAsc(dis, [i \in 1..Len(dis) |->
            <<TextKey(dis[i].lastName), TextKey(dis[i].firstName)>>])

StepRows(k, d) ==
    CASE k = 1 -> Step1(d)   [] k = 2 -> Step2(d)  [] k = 3 -> Step3(d)
      [] k = 4 -> Step4(d)   [] k = 5 -> Step5(d)  [] k = 6 -> Step6(d)
      [] k = 7 -> Step7(d)   [] k = 8 -> Step8(d)  [] k = 9 -> Step9(d)
      [] k = 10 -> Step10(d)

\* The tables each statement names in its FROM clauses; the statement fails
\* ("no such table") when the database lacks one of them.
StepTables(k) ==
    CASE k \in {1, 2, 3} -> {"employees", "offices"}
      [] k = 4 -> {"customers", "orders"}
      [] k = 5 -> {"customers", "payments"}
      [] k = 6 -> {"employees", "customers"}
      [] k = 7 -> {"products", "orderdetails"}
      [] k = 8 -> {"products", "orderdetails", "orders"}
      [] k = 9 -> {"offices", "employees", "customers"}
      [] k = 10 -> {"orderdetails", "orders", "employees", "offices",
                    "customers"}

\* A statement that deletes the payments it has reported.
AfterSelectDeletes(d) == [d EXCEPT !.payments = <<>>]

\* Every statement of the script is a SELECT: executing it writes nothing.
AfterSelect(d) == d

TableNames ==
    {"offices", "employees", "customers", "orders", "orderdetails",
     "products", "payments"}

\* The database sqlite3.connect creates when the file does not exist.
EmptyDatabase ==
    [offices |-> <<>>, employees |-> <<>>, customers |-> <<>>,
     orders |-> <<>>, orderdetails |-> <<>>, products |-> <<>>,
     payments |-> <<>>, indexes |-> "none", tables |-> {}]

NumSteps == 10
Steps == 1..NumSteps

(***************************************************************************)
(* The script as a state machine.                                          *)
(***************************************************************************)
VARIABLES
    file,       \* data.sqlite on disk: "missing", "unreadable", "garbage"
                \* (not a database) or "database"
    db,         \* the database the file holds
    conn,       \* "unopened", "open" or "closed"
    pc,         \* "connect", "master", "tables", "steps", "close", "done",
                \* or "raised" once an exception has ended the script
    done,       \* the steps that have been executed
    df_tables,  \* the table names read at line 17
    out,        \* df_boston .. df_under_20, by step
    low_demand_products,
                \* the rows of the WITH clause in step 10's execution
    queries,    \* statements sent over the connection so far
    raised,     \* the exception that ended the script, or "none"
    input,      \* the file and database as they were before the run
    run,        \* 1 in the first run of the script, 2 in a repeated one
    prev        \* out of the first run, in a repeated one

vars ==
    <<file, db, conn, pc, done, df_tables, out, low_demand_products, queries,
      raised, input, run, prev>>

Pending == [kind |-> "pending", rows |-> <<>>]
Table(rows) == [kind |-> "table", rows |-> rows]
Failed == [kind |-> "error", rows |-> <<>>]

NoOutput == [k \in Steps |-> Pending]

\* The step the sequential script runs next.
NextStep == CHOOSE k \in Steps \ done : \A j \in Steps \ done : k <= j

\* An open that refuses a missing file (mode=ro).
ConnectOutcomeReadOnly(f) ==
    IF f \in {"unreadable", "missing"} THEN "raises" ELSE "opens"

\* Line 10: conn = sqlite3.connect('data.sqlite').  A file that cannot be
\* opened raises; a missing file is created as an empty database; the
\* content of an existing file is not read yet.
ConnectOutcome(f) ==
    CASE f = "unreadable" -> "raises"
      [] f = "missing" -> "creates"
      [] OTHER -> "opens"

Connect ==
    /\ pc = "connect"
    /\ LET r == ConnectOutcome(file)
       IN  /\ conn' = IF r = "raises" THEN conn ELSE "open"
           /\ pc' = IF r = "raises" THEN "raised" ELSE "master"
           /\ raised' = IF r = "raises" THEN "OperationalError" ELSE raised
           /\ file' = IF r = "creates" THEN "database" ELSE file
           /\ db' = IF r = "creates" THEN EmptyDatabase ELSE db
    /\ UNCHANGED <<done, df_tables, out, low_demand_products, queries, input,
                   run, prev>>

\* Lines 13 and 17: the two reads of sqlite_master.  The first statement on
\* the connection reads the file's header and fails if it is not a database.
Metadata(at, then) ==
    /\ pc = at
    /\ conn = "open"
    /\ queries' = queries + 1
    /\ IF file = "garbage"
       THEN pc' = "raised" /\ raised' = "DatabaseError"
       ELSE pc' = then /\ raised' = raised
    /\ df_tables' = IF at = "tables" /\ file # "garbage"
                    THEN Table(db.tables) ELSE df_tables
    /\ db' = AfterSelect(db)
    /\ UNCHANGED <<file, conn, done, out, low_demand_products, input, run,
                   prev>>

Master == Metadata("master", "tables")
ListTables == Metadata("tables", "steps")

\* Where the script goes after step k returned: nothing catches an
\* exception, so the next statement runs only after a normal return.
AfterStep(finished) == IF finished = Steps THEN "close" ELSE "steps"

\* pd.read_sql of step k returns its DataFrame.
StepReturns(k) ==
    /\ pc = "steps"
    /\ conn = "open"
    /\ k \notin done
    /\ StepTables(k) \subseteq db.tables
    /\ out' = [out EXCEPT ![k] = Table(StepRows(k, db))]
    /\ low_demand_products' =
          IF k = NumSteps THEN LowDemandProducts(db) ELSE low_demand_products
    /\ done' = done \cup {k}
    /\ pc' = AfterStep(done')
    /\ queries' = queries + 1
    /\ db' = AfterSelect(db)
    /\ UNCHANGED <<file, conn, df_tables, raised, input, run, prev>>

\* The script with a finally clause around the steps: close after a raise.
AfterRaiseFinally(k) == "close"

\* The script with each step in its own try/except: go on after a raise.
AfterRaiseContinue(k) == AfterStep(done \cup {k})

\* What an exception raised by step k leaves behind: the script has no
\* try/except, so the traceback ends it where it is.
AfterRaise(k) == "raised"

\* pd.read_sql of step k raises (pandas' DatabaseError).
StepRaises(k) ==
    /\ pc = "steps"
    /\ conn = "open"
    /\ k \notin done
    /\ ~(StepTables(k) \subseteq db.tables)
    /\ out' = [out EXCEPT ![k] = Failed]
    /\ done' = done \cup {k}
    /\ raised' = "DatabaseError"
    /\ pc' = AfterRaise(k)
    /\ queries' = queries + 1
    /\ db' = AfterSelect(db)
    /\ UNCHANGED <<file, conn, df_tables, low_demand_products, input, run,
                   prev>>

\* Line 239: conn.close(), reached when every statement before it returned.
Close ==
    /\ pc = "close"
    /\ conn' = "closed"
    /\ pc' = "done"
    /\ UNCHANGED <<file, db, done, df_tables, out, low_demand_products, queries,
                   raised, input, run, prev>>

\* The script: steps 1 to 10 in the order of the file.
Next ==
    \/ Connect
    \/ Master
    \/ ListTables
    \/ StepReturns(NextStep)
    \/ StepRaises(NextStep)
    \/ Close

Terminated == pc \in {"done", "raised"}

(***************************************************************************)
(* The databases the script is run on.  Keys are unique and references     *)
(* resolve, as in the sample database; each family varies the tables one   *)
(* group of statements reads and keeps the others at the base content.     *)
(***************************************************************************)
NEmp == 6       \* employees
NProd == 2      \* products
NPay == 4       \* payments in the family that varies them
MaxCust == 21   \* customers in the family that varies orders

NYC == <<78, 89, 67>>
Paris == <<80, 97, 114, 105, 115>>

OfficeRows ==
    << [officeCode |-> 1, city |-> Boston, state |-> "MA", country |-> "USA"],
       [officeCode |-> 2, city |-> NYC, state |-> "NY", country |-> "USA"],
       [officeCode |-> 3, city |-> Paris, state |-> NullText,
        country |-> "France"] >>

EmployeeNumber(i) == 1000 + i
CustomerNumber(c) == 100 + c
OrderNumber(n) == 10000 + n
ProductCode(p) == 10 + p

\* Employees i and i + 4 carry the same lastName and firstName.
EmployeeRow(i, office) ==
    [employeeNumber |-> EmployeeNumber(i),
     firstName |-> <<65 + ((i \div 2) % 2)>>,
     lastName |-> <<65 + (i % 2)>>,
     officeCode |-> office]

BaseOffice(i) == CASE i % 3 = 1 -> 1 [] i % 3 = 2 -> 2 [] OTHER -> NullInt

EmployeeRows(office) == [i \in 1..NEmp |-> EmployeeRow(i, office[i])]

CustomerRow(c, rep, credit) ==
    [customerNumber |-> CustomerNumber(c),
     contactFirstName |-> <<67>>,
     contactLastName |-> <<68 + (c % 3)>>,
     phone |-> "555",
     salesRepEmployeeNumber |-> rep,
     creditLimit |-> credit]

\* Base content: one customer per employee, an order for every second
\* customer, one line per order.
BaseCustomers ==
    [c \in 1..NEmp |-> CustomerRow(c, EmployeeNumber(c), 100000)]
BaseOrders ==
    [n \in 1..(NEmp \div 2) |->
        [orderNumber |-> OrderNumber(n), customerNumber |-> CustomerNumber(2 * n)]]
BaseDetails ==
    [n \in 1..(NEmp \div 2) |->
        [orderNumber |-> OrderNumber(n), productCode |-> ProductCode(1),
         quantityOrdered |-> 2 + n]]
ProductRows(sameName) ==
    [p \in 1..NProd |->
        [productCode |-> ProductCode(p),
         productName |-> IF sameName THEN <<88>> ELSE <<88 + (p % 2)>>]]

PaymentRow(i, c, amount) ==
    [customerNumber |-> CustomerNumber(c),
     checkNumber |-> "chk",
     paymentDate |-> <<50, 48, 48, 57 - i>>,
     amount |-> amount]

\* '9', '10' and '10.0': as text '9' is the largest, as numbers the
\* smallest, and the other two are equal.
Amounts == {<<57>>, <<49, 48>>, <<49, 48, 46, 48>>}

BasePayments == << PaymentRow(1, 1, <<57>>), PaymentRow(2, 2, <<49, 48>>) >>

BaseDatabase ==
    [offices |-> OfficeRows,
     employees |-> EmployeeRows([i \in 1..NEmp |-> BaseOffice(i)]),
     customers |-> BaseCustomers,
     orders |-> BaseOrders,
     orderdetails |-> BaseDetails,
     products |-> ProductRows(FALSE),
     payments |-> BasePayments,
     indexes |-> "none",
     tables |-> TableNames]

\* Employees spread over the offices, or without one.
OfficeFamily ==
    {[BaseDatabase EXCEPT !.employees = EmployeeRows(office)] :
        office \in [1..NEmp -> {1, 2, NullInt}]}

\* Customers of one employee: none; one customer; two whose limits average
\* exactly 90000; three whose limits average above it.
CreditProfile(i, profile) ==
    LET limits == CASE profile = 0 -> <<>>
                    [] profile = 1 -> <<100000>>
                    [] profile = 2 -> <<95000, 85000>>
                    [] profile = 3 -> <<130000, 90000, 80000>>
    IN  [n \in 1..Len(limits) |->
            CustomerRow(3 * i + n, EmployeeNumber(i), limits[n])]

\* The last employee has no customer; the others take profiles 1 to 3.
CreditFamily ==
    {[BaseDatabase EXCEPT
        !.customers = Flatten([i \in 1..(NEmp - 1) |-> CreditProfile(i, prof[i])]),
        !.orders = <<>>, !.orderdetails = <<>>, !.payments = <<>>] :
        prof \in [1..(NEmp - 1) -> 1..3]}

\* Orders: customer c places order c; with `again`, customer 1 places one
\* more order.  Product p is on the orders of the first reach[p] customers
\* (and on the extra order).
ReachChoices == {0, 1, LowDemandBound - 1, LowDemandBound, MaxCust}

DemandDatabase(reach, again, sameName) ==
    LET extra == IF again THEN 1 ELSE 0
        line(n, p) == [orderNumber |-> OrderNumber(n),
                       productCode |-> ProductCode(p),
                       quantityOrdered |-> 1 + ((n + p) % 3)]
    IN  [BaseDatabase EXCEPT
            !.customers =
                [c \in 1..MaxCust |->
                    CustomerRow(c, EmployeeNumber(1 + ((c - 1) % NEmp)), 100000)],
            !.orders =
                [n \in 1..(MaxCust + extra) |->
                    [orderNumber |-> OrderNumber(n),
                     customerNumber |->
                        CustomerNumber(IF n > MaxCust THEN 1 ELSE n)]],
            !.orderdetails =
                Flatten([p \in 1..NProd |->
                    [n \in 1..reach[p] |-> line(n, p)]
                    \o (IF again /\ reach[p] > 0
                        THEN <<line(MaxCust + 1, p)>> ELSE <<>>)]),
            !.products = ProductRows(sameName)]

DemandFamily ==
    {DemandDatabase(reach, again, sameName) :
        reach \in [1..NProd -> ReachChoices],
        again \in BOOLEAN, sameName \in BOOLEAN}

\* Payments i = 1, 2, ... in insertion order, alternating between two
\* customers, later payments carrying earlier dates; and the three index
\* layouts of the file.
PaymentFamily ==
    {[BaseDatabase EXCEPT
        !.payments = [i \in 1..NPay |-> PaymentRow(i, 1 + (i % 2), amount[i])],
        !.indexes = ix] :
        amount \in [1..NPay -> Amounts],
        ix \in {"none", "payments_fk", "customers_pk"}}

\* A database that lacks one of the tables.
SchemaFamily ==
    {[BaseDatabase EXCEPT !.tables = TableNames \ {t}] : t \in TableNames}

Start(f, d) ==
    /\ file = f
    /\ db = d
    /\ conn = "unopened"
    /\ pc = "connect"
    /\ done = {}
    /\ df_tables = Pending
    /\ out = NoOutput
    /\ low_demand_products = <<>>
    /\ queries = 0
    /\ raised = "none"
    /\ input = [file |-> f, db |-> d]
    /\ run = 1
    /\ prev = NoOutput

\* A file that is missing, unreadable or not a database holds no tables.
BadFile ==
    \E f \in {"missing", "unreadable", "garbage"} : Start(f, EmptyDatabase)

InitOf(family) ==
    \/ BadFile
    \/ \E d \in family \cup SchemaFamily : Start("database", d)

Init ==
    InitOf(OfficeFamily \cup CreditFamily \cup DemandFamily \cup PaymentFamily)

Spec == Init /\ [][Next]_vars

\* The steps on one open connection, in any order.
NextAnyOrder ==
    \/ Connect
    \/ Master
    \/ ListTables
    \/ \E k \in Steps : StepReturns(k)
    \/ \E k \in Steps : StepRaises(k)
    \/ Close

IndexFamily ==
    {[BaseDatabase EXCEPT !.indexes = ix] :
        ix \in {"none", "payments_fk", "customers_pk"}}

SpecAnyOrder == InitOf(IndexFamily) /\ [][NextAnyOrder]_vars

\* The script is started once more on the file the first run left.
Rerun ==
    /\ Terminated
    /\ run = 1
    /\ run' = 2
    /\ prev' = out
    /\ input' = [file |-> file, db |-> db]
    /\ conn' = "unopened"
    /\ pc' = "connect"
    /\ done' = {}
    /\ df_tables' = Pending
    /\ out' = NoOutput
    /\ low_demand_products' = <<>>
    /\ queries' = 0
    /\ raised' = "none"
    /\ UNCHANGED <<file, db>>

NextRerun == Next \/ Rerun

SpecRerun == InitOf(OfficeFamily \cup DemandFamily) /\ [][NextRerun]_vars

(***************************************************************************)
(* The claims.                                                             *)
(***************************************************************************)
Returned(k) == out[k].kind = "table"
Opened == conn # "unopened"

\* C1, as stated: on every exit path the connection opened at the start is
\* closed, also when a metadata query or one of the ten steps raises.
C1_ClosedOnEveryExit == (Terminated /\ Opened) => conn = "closed"

\* C1, amended: a run that opened the connection ends with it closed exactly
\* when no statement raised; an exception ends the run with the connection
\* still open.
C1_ClosedIffNothingRaised ==
    (Terminated /\ Opened) =>
        /\ conn = "closed" <=> raised = "none"
        /\ raised # "none" => conn = "open"

C1_Witness ==
    /\ pc = "raised" /\ conn = "open"
    /\ \E k \in Steps : k > 1 /\ out[k].kind = "error"

\* C2, as stated: a query error in step k does not keep the later steps from
\* running; the run ends with a table or an error for each of the ten steps.
C2_EveryStepHasOutcome ==
    (Terminated /\ \E k \in Steps : out[k].kind = "error") =>
        \A j \in Steps : out[j].kind # "pending"

\* C2, amended: a query error in step k ends the run; every step before k
\* has returned its table, step k has its error, no step after k is executed.
C2_ErrorEndsRun ==
    \A k \in Steps :
        out[k].kind = "error" =>
            /\ pc = "raised"
            /\ \A j \in Steps : j < k => Returned(j)
            /\ \A j \in Steps : j > k => out[j].kind = "pending"

C2_Witness ==
    /\ pc = "raised" /\ out[5].kind = "error"
    /\ Returned(4) /\ Len(out[4].rows) > 0

\* C3, as stated: opening fails when the file is missing or unreadable, the
\* run is aborted before any query, and the run creates no database file.
C3_MissingFileAborts ==
    input.file \in {"missing", "unreadable"} =>
        /\ queries = 0
        /\ file = input.file
        /\ pc # "connect" => (pc = "raised" /\ raised = "OperationalError")

\* C3, amended: opening fails, and no query is executed, when the file
\* cannot be opened; when the file is missing it is created as an empty
\* database, the connection opens, the two metadata queries run and list no
\* table, and step 1 ends the run with its error, so that no step returns a
\* table; a file that is not a database opens and fails the first query.
C3_UnreadableAbortsMissingIsCreated ==
    /\ (input.file = "unreadable" /\ pc # "connect") =>
          /\ pc = "raised" /\ raised = "OperationalError"
          /\ conn = "unopened" /\ queries = 0 /\ file = "unreadable"
    /\ (input.file = "missing" /\ pc # "connect") =>
          /\ file = "database" /\ db = EmptyDatabase /\ Opened
          /\ df_tables.kind = "table" => df_tables.rows = {}
          /\ \A k \in Steps : ~Returned(k)
          /\ Terminated =>
                /\ raised = "DatabaseError" /\ out[1].kind = "error"
                /\ queries = 3
    /\ (input.file = "garbage" /\ pc \notin {"connect", "master"}) =>
          /\ pc = "raised" /\ raised = "DatabaseError" /\ queries = 1
          /\ done = {}

C3_Witness ==
    /\ input.file = "missing" /\ Terminated
    /\ file = "database" /\ out[1].kind = "error"
    /\ df_tables.kind = "table" /\ df_tables.rows = {}

\* The database step k of the script reads when the steps run in the order
\* 1..10: the input after the two metadata queries and the k - 1 steps
\* before it.
RECURSIVE AfterSelects(_, _)
AfterSelects(d, n) == IF n = 0 THEN d ELSE AfterSelect(AfterSelects(d, n - 1))

InOrderRows(k) == StepRows(k, AfterSelects(input.db, k + 1))

C5_OfficesWithoutEmployees ==
    Returned(2) =>
        LET rows == out[2].rows
            times(o) == Cardinality({j \in 1..Len(rows) : rows[j] = o})
        IN  /\ \A i \in 1..Len(db.offices) :
                  LET o == db.offices[i]
                  IN  IF \E n \in 1..Len(db.employees) :
                             db.employees[n].officeCode = o.officeCode
                      THEN times(o) = 0
                      ELSE times(o) = 1
            /\ \A j \in 1..Len(rows) : rows[j] \in Range(db.offices)

C5_Witness ==
    /\ Returned(2) /\ Len(out[2].rows) = 2
    /\ \E n \in 1..Len(db.employees) : db.employees[n].officeCode = 2

\* The customers of employee row e, and whether e qualifies for step 6.
CustomersOf(e) ==
    SelectSeq(db.customers,
        LAMBDA c : c.salesRepEmployeeNumber = e.employeeNumber)

Qualifies(e) ==
    LET cs == CustomersOf(e)
    IN  /\ Len(cs) >= 1
        /\ SumSeq([i \in 1..Len(cs) |-> cs[i].creditLimit]) > 90000 * Len(cs)

Qualifying == {e \in Range(db.employees) : Qualifies(e)}

\* C6: step 6 returns at most 4 employees, each with at least one customer
\* and an average customer credit limit strictly above 90000, in
\* non-increasing order of customer count; when at most 4 qualify the
\* result is the qualifying employees, and when more qualify no omitted one
\* has a strictly larger customer count than a returned one.
C6_TopFourByCustomers ==
    Returned(6) =>
        LET rows == out[6].rows
            shown == {e \in Range(db.employees) :
                         \E i \in 1..Len(rows) :
                             rows[i].employeeNumber = e.employeeNumber}
        IN  /\ Len(rows) <= 4
            /\ \A i \in 1..Len(rows) :
                  \E e \in Qualifying :
                      /\ rows[i].employeeNumber = e.employeeNumber
                      /\ rows[i].firstName = e.firstName
                      /\ rows[i].lastName = e.lastName
                      /\ rows[i].num_customers = Len(CustomersOf(e))
                      /\ rows[i].num_customers >= 1
            /\ \A i, j \in 1..Len(rows) :
                  /\ i < j => rows[i].num_customers >= rows[j].num_customers
                  /\ i # j => rows[i].employeeNumber # rows[j].employeeNumber
            /\ Cardinality(Qualifying) <= 4 => shown = Qualifying
            /\ Cardinality(Qualifying) > 4 =>
                  /\ Len(rows) = 4
                  /\ \A q \in Qualifying \ shown : \A i \in 1..Len(rows) :
                        Len(CustomersOf(q)) <= rows[i].num_customers

C6_Witness ==
    /\ Returned(6) /\ Len(out[6].rows) = 4
    /\ Cardinality(Qualifying) = 5
    /\ out[6].rows[1].num_customers > out[6].rows[4].num_customers

\* The distinct customers with an order that holds product code p.
Purchasers(p) ==
    {db.orders[n].customerNumber : n \in
        {n \in 1..Len(db.orders) :
            \E m \in 1..Len(db.orderdetails) :
                /\ db.orderdetails[m].orderNumber = db.orders[n].orderNumber
                /\ db.orderdetails[m].productCode = p}}

OrderedProducts ==
    {db.orderdetails[m].productCode : m \in 1..Len(db.orderdetails)}

\* C7: the low-demand set of step 10 is the set of products on at least one
\* order line whose orders belong to fewer than 20 distinct customers, so it
\* never holds a product bought by 20 or more; and every employee returned
\* has an office and a customer with an order holding a product of the set.
C7_LowDemandSet ==
    Returned(10) =>
        /\ Range(low_demand_products) =
              {p \in OrderedProducts : Cardinality(Purchasers(p)) < 20}
        /\ \A p \in Range(low_demand_products) :
              ~(Cardinality(Purchasers(p)) >= 20)
        /\ \A i \in 1..Len(out[10].rows) :
              \E e \in Range(db.employees) :
                  /\ e.employeeNumber = out[10].rows[i].employeeNumber
                  /\ \E o \in Range(db.offices) : o.officeCode = e.officeCode
                  /\ \E c \in Range(db.customers), o \in Range(db.orders),
                        od \in Range(db.orderdetails) :
                        /\ c.salesRepEmployeeNumber = e.employeeNumber
                        /\ o.customerNumber = c.customerNumber
                        /\ od.orderNumber = o.orderNumber
                        /\ od.productCode \in Range(low_demand_products)

C7_Witness ==
    /\ Returned(10) /\ Len(out[10].rows) > 0
    /\ \E p \in OrderedProducts : Cardinality(Purchasers(p)) = 20
    /\ \E p \in Range(low_demand_products) : Cardinality(Purchasers(p)) = 19
    /\ Len(db.orders) > MaxCust

PaymentPairs ==
    {<<c, p>> \in (1..Len(db.customers)) \X (1..Len(db.payments)) :
        db.customers[c].customerNumber = db.payments[p].customerNumber}

PairRow(cp) ==
    [contactFirstName |-> db.customers[cp[1]].contactFirstName,
     contactLastName |-> db.customers[cp[1]].contactLastName,
     amount |-> db.payments[cp[2]].amount,
     paymentDate |-> db.payments[cp[2]].paymentDate]

\* The pair a row of the report comes from (each payment has its own date).
PairOf(row) == CHOOSE cp \in PaymentPairs : PairRow(cp) = row

C9_OneRowPerPair ==
    LET rows == out[5].rows
    IN  /\ Len(rows) = Cardinality(PaymentPairs)
        /\ \A cp \in PaymentPairs :
              Cardinality({i \in 1..Len(rows) : rows[i] = PairRow(cp)})
                  = Cardinality({x \in PaymentPairs : PairRow(x) = PairRow(cp)})

C9_NumericDescending ==
    LET rows == out[5].rows
    IN  \A i, j \in 1..Len(rows) :
            i < j => CastReal(rows[i].amount) >= CastReal(rows[j].amount)

\* Rows of equal numeric amount, in the insertion order of their payments;
\* and in the order of their customers, then of their payments.
TiesInPaymentOrder ==
    LET rows == out[5].rows
    IN  \A i, j \in 1..Len(rows) :
            (i < j /\ CastReal(rows[i].amount) = CastReal(rows[j].amount)) =>
                PairOf(rows[i])[2] < PairOf(rows[j])[2]

TiesInJoinInputOrder ==
    LET rows == out[5].rows
    IN  \A i, j \in 1..Len(rows) :
            (i < j /\ CastReal(rows[i].amount) = CastReal(rows[j].amount)) =>
                LET a == PairOf(rows[i])
                    b == PairOf(rows[j])
                IN  a[1] < b[1] \/ (a[1] = b[1] /\ a[2] < b[2])

\* C9, as stated: step 5 returns one row per (customer, payment) pair, in
\* non-increasing order of the amount as a number, rows of equal amount in
\* their input (insertion) order, under either reading of that order.
C9_TiesInInsertionOrder ==
    Returned(5) =>
        /\ C9_OneRowPerPair
        /\ C9_NumericDescending
        /\ TiesInPaymentOrder \/ TiesInJoinInputOrder

\* C9, amended: one row per pair, in non-increasing order of the amount as
\* a number; rows of equal amount are in the insertion order of their
\* payments when the join scans payments (customers is searched by its key
\* index), and in an order of the engine's access path otherwise.
C9_NumericOrderEngineTies ==
    Returned(5) =>
        /\ C9_OneRowPerPair
        /\ C9_NumericDescending
        /\ db.indexes = "customers_pk" => TiesInPaymentOrder

C9_Witness ==
    /\ Returned(5) /\ db.indexes = "none"
    /\ \E i, j \in 1..Len(out[5].rows) :
          /\ i < j
          /\ out[5].rows[i].amount = <<49, 48>>
          /\ out[5].rows[j].amount = <<57>>
    /\ ~TiesInPaymentOrder /\ ~TiesInJoinInputOrder

\* The order lines of product row p.
LinesOf(p) ==
    SelectSeq(db.orderdetails, LAMBDA od : od.productCode = p.productCode)

\* C10: step 7 returns exactly one row for each product (productCode) on at
\* least one order line, with the number of its order lines and the sum of
\* their quantities, also when two products share a productName; rows are in
\* non-increasing order of totalunits.
C10_OneRowPerProduct ==
    Returned(7) =>
        LET rows == out[7].rows
            sold == {p \in Range(db.products) : Len(LinesOf(p)) > 0}
        IN  /\ Len(rows) = Cardinality(sold)
            /\ \A p \in sold :
                  \E i \in 1..Len(rows) :
                      /\ rows[i].productName = p.productName
                      /\ rows[i].numorders = Len(LinesOf(p))
                      /\ rows[i].totalunits =
                            SumSeq([n \in 1..Len(LinesOf(p)) |->
                                LinesOf(p)[n].quantityOrdered])
            /\ \A i, j \in 1..Len(rows) :
                  i < j => rows[i].totalunits >= rows[j].totalunits

====
